---------------------------- MODULE Spec2Model ----------------------------
(***************************************************************************)
(* Model of the KLE layout interpreter and plate placement derivation of   *)
(* case/compounds/plate.py (parse_kle, _rot2d, _keys_bounds and the key    *)
(* loop of build_plate_from_kle) with case/compounds/stabilizer.py.        *)
(*                                                                         *)
(* Numbers.  The program computes in binary floating point; the model      *)
(* computes the same expressions exactly, in fixed point:                  *)
(*   - a grid value g (KLE units) is the integer g * GridScale;            *)
(*   - the unit (mm per KLE unit) u is the integer u * 100;                *)
(*   - a length in mm is therefore the integer mm * GridScale * 100.       *)
(* All document values are multiples of a quarter unit, which makes every  *)
(* halving of the program exact.  Angles are whole degrees, multiples of   *)
(* 90, for which cos and sin are exactly 0, 1 or -1; the rounding of       *)
(* math.cos(math.radians(90)) (6.1e-17, not 0) is not modelled.            *)
(***************************************************************************)
EXTENDS Integers, Sequences, FiniteSets, TLC

VARIABLES
    data,        \* json.loads(_kle_to_json_str(kle)): the parsed document
    unit,        \* parameter unit (hundredths of a mm per KLE unit)
    stabilizer,  \* parameter stabilizer: None or a scheme
    pc,          \* position in build_plate_from_kle / parse_kle
    ri,          \* index of the current row in `for row in data`
    ti,          \* index of the current token in `for token in row`
    cur_x, cur_y,            \* cursor
    cur_w, cur_h,            \* pending key size
    rot_deg, rot_x, rot_y,   \* rotation group
    keys,        \* parse_kle's local list of KleKey
    src,         \* history: for each appended key, the <<row, token>> that caused it
    ret,         \* what parse_kle returned to its caller, if it returned
    err,         \* the ValueError raised, if any
    bounds,      \* (min_x, min_y, max_x, max_y) of _keys_bounds
    plate,       \* plate_x, plate_y, plate_cx, plate_cy
    ki,          \* index of the current key in `for k in keys`
    holes,       \* switch cutouts added to holes_sk
    stabs,       \* stabilizer cutouts added to holes_sk
    kle,         \* _kle_to_json_str: the raw layout text, a sequence of characters
    s_text,      \* _kle_to_json_str: its local s
    npc,         \* position in _kle_to_json_str
    calls        \* the locals of each parse_kle invocation running side by side

vars == <<data, unit, stabilizer, pc, ri, ti, cur_x, cur_y, cur_w, cur_h,
          rot_deg, rot_x, rot_y, keys, src, ret, err, bounds, plate, ki,
          holes, stabs, kle, s_text, npc, calls>>

\* What the steps of a single build_plate_from_kle call on a parsed document
\* do not touch.
apart == <<kle, s_text, npc, calls>>

interp == <<cur_x, cur_y, cur_w, cur_h, rot_deg, rot_x, rot_y>>

-----------------------------------------------------------------------------
(* Fixed point *)

GridScale == 16

DefaultUnit == 1905

Margin == 3 * GridScale * 100

One == GridScale

Half(v) == v \div 2

-----------------------------------------------------------------------------
(* JSON values as json.loads returns them *)

TokStr == [kind |-> "str"]

TokNum == [kind |-> "num"]

TokBool == [kind |-> "bool"]

TokNull == [kind |-> "null"]

List(items) == [kind |-> "list", items |-> items]

\* A dict is its set of <<key, value>> items; keys are unique.
Dict(fields) == [kind |-> "dict", fields |-> fields]

IsList(v) == v.kind = "list"

IsDict(v) == v.kind = "dict"

\* isinstance(token, (str, int, float)): Python's bool is a subclass of int,
\* so the JSON literals true and false pass this test as well.
IsScalar(v) == v.kind \in {"str", "num", "bool"}

\* "f" in token
Has(token, f) == \E p \in token.fields : p[1] = f

\* float(token["f"])
Get(token, f) == (CHOOSE p \in token.fields : p[1] = f)[2]

-----------------------------------------------------------------------------
(* _rot2d *)

CosDeg(deg) ==
    CASE deg % 360 = 0   -> 1
      [] deg % 360 = 90  -> 0
      [] deg % 360 = 180 -> -1
      [] deg % 360 = 270 -> 0

SinDeg(deg) ==
    CASE deg % 360 = 0   -> 0
      [] deg % 360 = 90  -> 1
      [] deg % 360 = 180 -> 0
      [] deg % 360 = 270 -> -1

Rot2dAlt(x, y, deg, ox, oy) ==
    IF deg = 0 THEN <<x, y>>
    ELSE LET ca == CosDeg(deg)
             sa == SinDeg(deg)
             dx == x - ox
             dy == y - oy
         IN  <<ox + dx * ca + dy * sa, oy - dx * sa + dy * ca>>

Rot2d(x, y, deg, ox, oy) ==
    IF deg = 0 THEN <<x, y>>
    ELSE LET ca == CosDeg(deg)
             sa == SinDeg(deg)
             dx == x - ox
             dy == y - oy
         IN  <<ox + dx * ca - dy * sa, oy + dx * sa + dy * ca>>


-----------------------------------------------------------------------------
(* Documents *)

MaxRows == 2

MaxTokens == 3

RECURSIVE SeqsOfLen(_, _)
\* All sequences of length n over S.
SeqsOfLen(S, n) ==
    IF n = 0 THEN {<<>>}
    ELSE {Append(s, e) : s \in SeqsOfLen(S, n - 1), e \in S}

\* {w: 2.25}
ModWide == Dict({<<"w", 36>>})

\* {r: 90, rx: 1, y: 0.25}
ModTurn == Dict({<<"r", 90>>, <<"rx", 16>>, <<"y", 4>>})

StructTokens == {TokStr, TokNum, TokBool, TokNull, ModWide, ModTurn}

\* Top-level elements that are not rows: a bare label, a bare modifier.
NonRows == {TokStr, ModWide}

RECURSIVE DocsWithin(_, _)
\* Documents of at most r top-level elements holding at most n tokens in all
\* (an element that is not a row counts as one token).
DocsWithin(r, n) ==
    IF r = 0 THEN {<<>>}
    ELSE {<<>>}
         \cup UNION {{<<List(row)>> \o d : row \in SeqsOfLen(StructTokens, k),
                                          d \in DocsWithin(r - 1, n - k)}
                     : k \in 0..n}
         \cup (IF n = 0 THEN {}
               ELSE {<<e>> \o d : e \in NonRows, d \in DocsWithin(r - 1, n - 1)})

StructDocs == DocsWithin(MaxRows, MaxTokens)

\* The ways a modifier record can hold field f: not at all, or with a value.
Opt(f, values) == {{}} \cup {{<<f, v>>} : v \in values}

\* Modifier records over the recognised fields x, y, w, h, r, rx, ry and one
\* unrecognised field ("a", KLE's label alignment), each present or absent.
AllMods ==
    {Dict(x \cup y \cup w \cup h \cup r \cup rx \cup ry \cup a) :
        x \in Opt("x", {16}), y \in Opt("y", {8}),
        w \in Opt("w", {20, 36}), h \in Opt("h", {32, 36}),
        r \in Opt("r", {90, 180}), rx \in Opt("rx", {0, 16}),
        ry \in Opt("ry", {0, 8}), a \in Opt("a", {7})}

\* {}, {w: 2} and a record that moves every state component off its default.
PriorMods ==
    {Dict({}),
     Dict({<<"w", 32>>}),
     Dict({<<"x", 4>>, <<"y", 4>>, <<"w", 20>>, <<"h", 36>>,
           <<"r", 270>>, <<"rx", 16>>, <<"ry", 8>>})}

\* One row: a modifier, a key, any modifier, a key.
ModDocs ==
    {<<List(<<m1, TokStr, m2, TokNum>>)>> : m1 \in PriorMods, m2 \in AllMods}

Units == {DefaultUnit, 1000}

\* stabilizer=None, and KadStabilizerScheme() with min_u_exclusive = 2.0
NoScheme == [given |-> FALSE, min_u_exclusive |-> 0]

KadStabilizerScheme == [given |-> TRUE, min_u_exclusive |-> 2 * GridScale]

Schemes == {NoScheme, KadStabilizerScheme}

Inputs ==
    (StructDocs \X {DefaultUnit} \X Schemes) \cup (ModDocs \X Units \X Schemes)

-----------------------------------------------------------------------------
(* parse_kle *)

NoBounds == <<0, 0, 0, 0>>

NoPlate == [plate_x |-> 0, plate_y |-> 0, plate_cx |-> 0, plate_cy |-> 0]

Init ==
    /\ \E in \in Inputs :
          /\ data = in[1]
          /\ unit = in[2]
          /\ stabilizer = in[3]
    /\ pc = "rows"
    /\ ri = 1
    /\ ti = 1
    /\ cur_x = 0
    /\ cur_y = 0
    /\ cur_w = One
    /\ cur_h = One
    /\ rot_deg = 0
    /\ rot_x = 0
    /\ rot_y = 0
    /\ keys = <<>>
    /\ src = <<>>
    /\ ret = [returned |-> FALSE, keys |-> <<>>]
    /\ err = "none"
    /\ bounds = NoBounds
    /\ plate = NoPlate
    /\ ki = 1
    /\ holes = <<>>
    /\ stabs = <<>>
    /\ kle = <<>>
    /\ s_text = <<>>
    /\ npc = "loaded"
    /\ calls = <<>>

build == <<bounds, plate, ki, holes, stabs>>

row == data[ri].items

token == row[ti]

\* for row in data: ... cur_x = 0.0
RowStart ==
    /\ pc = "rows"
    /\ ri <= Len(data)
    /\ IsList(data[ri])
    /\ cur_x' = 0
    /\ ti' = 1
    /\ pc' = "tokens"
    /\ UNCHANGED <<data, unit, stabilizer, ri, cur_y, cur_w, cur_h, rot_deg,
                   rot_x, rot_y, keys, src, ret, err>>
    /\ UNCHANGED build
    /\ UNCHANGED apart

\* raise ValueError("Each row must be a JSON array")
RowNotList ==
    /\ pc = "rows"
    /\ ri <= Len(data)
    /\ ~IsList(data[ri])
    /\ pc' = "error"
    /\ err' = "RowNotArray"
    /\ UNCHANGED <<data, unit, stabilizer, ri, ti, keys, src, ret>>
    /\ UNCHANGED interp
    /\ UNCHANGED build
    /\ UNCHANGED apart

JogOverwrites(tok, f, v) == IF Has(tok, f) THEN Get(tok, f) ELSE v

\* if "f" in token: v += float(token["f"])
Jog(tok, f, v) == IF Has(tok, f) THEN v + Get(tok, f) ELSE v

\* if "f" in token: v = float(token["f"])
Set(tok, f, v) == IF Has(tok, f) THEN Get(tok, f) ELSE v

\* if isinstance(token, dict): ... continue
TokenModifier ==
    /\ pc = "tokens"
    /\ ti <= Len(row)
    /\ IsDict(token)
    /\ cur_x' = Jog(token, "x", cur_x)
    /\ cur_y' = Jog(token, "y", cur_y)
    /\ cur_w' = Set(token, "w", cur_w)
    /\ cur_h' = Set(token, "h", cur_h)
    /\ rot_deg' = Set(token, "r", rot_deg)
    /\ rot_x' = Set(token, "rx", rot_x)
    /\ rot_y' = Set(token, "ry", rot_y)
    /\ ti' = ti + 1
    /\ UNCHANGED <<data, unit, stabilizer, pc, ri, keys, src, ret, err>>
    /\ UNCHANGED build
    /\ UNCHANGED apart

FlushedKeyNoFlip(x, y, w, h, deg, ox, oy, u) ==
    LET c == Rot2d(x + Half(w), y + Half(h), deg, ox, oy)
    IN  [center |-> <<c[1] * u, c[2] * u>>,
         size |-> <<w * u, h * u>>,
         angle_deg |-> deg]

\* The KleKey that flush_key appends.
FlushedKey(x, y, w, h, deg, ox, oy, u) ==
    LET c == Rot2d(x + Half(w), y + Half(h), deg, ox, oy)
    IN  [center |-> <<c[1] * u, (-c[2]) * u>>,
         size |-> <<w * u, h * u>>,
         angle_deg |-> deg]

\* flush_key: cur_x += cur_w
AdvancedByOne(x, w) == x + One

AdvancedX(x, w) == x + w

\* if isinstance(token, (str, int, float)): flush_key(); continue
TokenKey ==
    /\ pc = "tokens"
    /\ ti <= Len(row)
    /\ ~IsDict(token)
    /\ IsScalar(token)
    /\ keys' = Append(keys, FlushedKey(cur_x, cur_y, cur_w, cur_h,
                                       rot_deg, rot_x, rot_y, unit))
    /\ src' = Append(src, <<ri, ti>>)
    /\ cur_x' = AdvancedX(cur_x, cur_w)
    /\ cur_w' = One
    /\ cur_h' = One
    /\ ti' = ti + 1
    /\ UNCHANGED <<data, unit, stabilizer, pc, ri, cur_y, rot_deg, rot_x,
                   rot_y, ret, err>>
    /\ UNCHANGED build
    /\ UNCHANGED apart

\* raise ValueError(f"Unsupported KLE token type: {type(token)}")
TokenUnsupported ==
    /\ pc = "tokens"
    /\ ti <= Len(row)
    /\ ~IsDict(token)
    /\ ~IsScalar(token)
    /\ pc' = "error"
    /\ err' = "UnsupportedToken"
    /\ UNCHANGED <<data, unit, stabilizer, ri, ti, keys, src, ret>>
    /\ UNCHANGED interp
    /\ UNCHANGED build
    /\ UNCHANGED apart

NextRowSameY(y) == y

\* cur_y += 1.0
NextRowY(y) == y + One

\* the row's tokens are exhausted: next row
RowEnd ==
    /\ pc = "tokens"
    /\ ti > Len(row)
    /\ cur_y' = NextRowY(cur_y)
    /\ ri' = ri + 1
    /\ pc' = "rows"
    /\ UNCHANGED <<data, unit, stabilizer, ti, cur_x, cur_w, cur_h, rot_deg,
                   rot_x, rot_y, keys, src, ret, err>>
    /\ UNCHANGED build
    /\ UNCHANGED apart

\* return keys
ParseReturn ==
    /\ pc = "rows"
    /\ ri > Len(data)
    /\ ret' = [returned |-> TRUE, keys |-> keys]
    /\ pc' = "parsed"
    /\ UNCHANGED <<data, unit, stabilizer, ri, ti, keys, src, err>>
    /\ UNCHANGED interp
    /\ UNCHANGED build
    /\ UNCHANGED apart

-----------------------------------------------------------------------------
(* _keys_bounds *)

KeyCornersUnrotated(k) ==
    LET cx == k.center[1]
        cy == k.center[2]
        hw == Half(k.size[1])
        hh == Half(k.size[2])
    IN  << <<cx - hw, cy - hh>>, <<cx + hw, cy - hh>>,
           <<cx + hw, cy + hh>>, <<cx - hw, cy + hh>> >>

\* The four corners of key k, each rotated about k's center by k.angle_deg.
KeyCorners(k) ==
    LET cx == k.center[1]
        cy == k.center[2]
        hw == Half(k.size[1])
        hh == Half(k.size[2])
        corners == << <<cx - hw, cy - hh>>, <<cx + hw, cy - hh>>,
                      <<cx + hw, cy + hh>>, <<cx - hw, cy + hh>> >>
    IN  [i \in 1..4 |->
            Rot2d(corners[i][1], corners[i][2], k.angle_deg, cx, cy)]

RECURSIVE AllCorners(_)
\* The rotated corners of all keys, in the order xs and ys are appended to.
AllCorners(ks) ==
    IF ks = <<>> THEN <<>>
    ELSE KeyCorners(Head(ks)) \o AllCorners(Tail(ks))

Xs(ks) == LET cs == AllCorners(ks) IN [i \in 1..Len(cs) |-> cs[i][1]]

Ys(ks) == LET cs == AllCorners(ks) IN [i \in 1..Len(cs) |-> cs[i][2]]

\* min(xs)
MinOf(s) ==
    LET S == {s[i] : i \in 1..Len(s)} IN CHOOSE m \in S : \A e \in S : m <= e

\* max(xs)
MaxOf(s) ==
    LET S == {s[i] : i \in 1..Len(s)} IN CHOOSE m \in S : \A e \in S : m >= e

NoCornersOrOneKey(ks) == Len(Xs(ks)) <= 4 \/ Len(Ys(ks)) <= 4

\* if not xs or not ys
NoCorners(ks) == Len(Xs(ks)) = 0 \/ Len(Ys(ks)) = 0

\* return min(xs), min(ys), max(xs), max(ys)
KeysBounds(ks) ==
    LET xs == Xs(ks)
        ys == Ys(ks)
    IN  <<MinOf(xs), MinOf(ys), MaxOf(xs), MaxOf(ys)>>

-----------------------------------------------------------------------------
(* build_plate_from_kle *)

\* keys = parse_kle(...); _keys_bounds(keys) raises
\* ValueError("No keys found in KLE data")
NoKeys ==
    /\ pc = "parsed"
    /\ NoCorners(ret.keys)
    /\ pc' = "error"
    /\ err' = "NoKeys"
    /\ UNCHANGED <<data, unit, stabilizer, ri, ti, keys, src, ret>>
    /\ UNCHANGED interp
    /\ UNCHANGED build
    /\ UNCHANGED apart

\* min_x, ... = _keys_bounds(keys); plate_x ... plate_cy; the base plate
PlateBase ==
    /\ pc = "parsed"
    /\ ~NoCorners(ret.keys)
    /\ LET b == KeysBounds(ret.keys)
       IN  /\ bounds' = b
           /\ plate' = [plate_x |-> (b[3] - b[1]) + 2 * Margin,
                        plate_y |-> (b[4] - b[2]) + 2 * Margin,
                        plate_cx |-> Half(b[1] + b[3]),
                        plate_cy |-> Half(b[2] + b[4])]
    /\ ki' = 1
    /\ pc' = "holes"
    /\ UNCHANGED <<data, unit, stabilizer, ri, ti, keys, src, ret, err,
                   holes, stabs>>
    /\ UNCHANGED interp
    /\ UNCHANGED apart

\* long_u = max(w_u, h_u)
LongU(k, u) ==
    LET w_u == k.size[1] \div u
        h_u == k.size[2] \div u
    IN  IF w_u >= h_u THEN w_u ELSE h_u

NeedsStabilizerInclusive(k, u, scheme) ==
    scheme.given /\ LongU(k, u) >= scheme.min_u_exclusive

\* if stabilizer is not None: ... if long_u > stabilizer.min_u_exclusive
NeedsStabilizer(k, u, scheme) ==
    scheme.given /\ LongU(k, u) > scheme.min_u_exclusive

\* axis_rot = 0.0 if w_u >= h_u else 90.0
AxisRot(k, u) == IF k.size[1] \div u >= k.size[2] \div u THEN 0 ELSE 90

\* stab_sk = stabilizer.draw_cutout(long_u, lx, ly): the template translated
\* to (lx, ly); Location((0, 0, 0), (0, 0, axis_rot)) * stab_sk then rotates
\* the translated sketch about the origin.
StabCutout(k, u, lx, ly) ==
    [key |-> k,
     u |-> LongU(k, u),
     axis_rot |-> AxisRot(k, u),
     at |-> Rot2d(lx, ly, AxisRot(k, u), 0, 0)]

\* for k in keys: the switch cutout, and the stabilizer cutout if any
Hole ==
    /\ pc = "holes"
    /\ ki <= Len(ret.keys)
    /\ LET k == ret.keys[ki]
           lx == k.center[1] - plate.plate_cx
           ly == k.center[2] - plate.plate_cy
       IN  /\ holes' = Append(holes, [at |-> <<lx, ly>>, angle |-> k.angle_deg])
           /\ stabs' = IF NeedsStabilizer(k, unit, stabilizer)
                       THEN Append(stabs, [index |-> ki,
                                           cutout |-> StabCutout(k, unit, lx, ly)])
                       ELSE stabs
    /\ ki' = ki + 1
    /\ UNCHANGED <<data, unit, stabilizer, pc, ri, ti, keys, src, ret, err,
                   bounds, plate>>
    /\ UNCHANGED interp
    /\ UNCHANGED apart

\* the key loop is exhausted: all cutouts are in holes_sk
Built ==
    /\ pc = "holes"
    /\ ki > Len(ret.keys)
    /\ pc' = "built"
    /\ UNCHANGED <<data, unit, stabilizer, ri, ti, keys, src, ret, err>>
    /\ UNCHANGED interp
    /\ UNCHANGED build
    /\ UNCHANGED apart

Next ==
    \/ RowStart
    \/ RowNotList
    \/ TokenModifier
    \/ TokenKey
    \/ TokenUnsupported
    \/ RowEnd
    \/ ParseReturn
    \/ NoKeys
    \/ PlateBase
    \/ Hole
    \/ Built

Spec == Init /\ [][Next]_vars

-----------------------------------------------------------------------------
(* _kle_to_json_str: a text is a sequence of one-character strings *)

MaxText == 5

\* The characters texts are drawn from: the punctuation of a row fragment, a
\* letter, a newline and the two comment characters.
Chars == {"{", ",", ":", "\"", "w", "\n", "/", "*"}

\* The texts of at most n characters.
Texts(n) == UNION {SeqsOfLen(Chars, m) : m \in 0..n}

\* \s, and what str.strip() removes
IsSpace(c) == c \in {" ", "\t", "\n", "\r", "\f"}

\* [A-Za-z_]
IsIdentStart(c) ==
    c \in {"a", "b", "c", "d", "e", "f", "g", "h", "i", "j", "k", "l", "m",
           "n", "o", "p", "q", "r", "s", "t", "u", "v", "w", "x", "y", "z",
           "A", "B", "C", "D", "E", "F", "G", "H", "I", "J", "K", "L", "M",
           "N", "O", "P", "Q", "R", "S", "T", "U", "V", "W", "X", "Y", "Z",
           "_"}

\* [A-Za-z0-9_]
IsIdentChar(c) ==
    IsIdentStart(c) \/ c \in {"0", "1", "2", "3", "4", "5", "6", "7", "8", "9"}

RECURSIVE SkipSpaces(_, _)
\* \s* from position i: the first position it does not take.
SkipSpaces(t, i) ==
    IF i <= Len(t) /\ IsSpace(t[i]) THEN SkipSpaces(t, i + 1) ELSE i

RECURSIVE SkipIdent(_, _)
\* [A-Za-z0-9_]* from position i: the first position it does not take.
SkipIdent(t, i) ==
    IF i <= Len(t) /\ IsIdentChar(t[i]) THEN SkipIdent(t, i + 1) ELSE i

RECURSIVE StripLeft(_)
StripLeft(t) ==
    IF t # <<>> /\ IsSpace(Head(t)) THEN StripLeft(Tail(t)) ELSE t

RECURSIVE StripRight(_)
StripRight(t) ==
    IF t # <<>> /\ IsSpace(t[Len(t)]) THEN StripRight(SubSeq(t, 1, Len(t) - 1))
    ELSE t

\* s = kle.strip()
Strip(t) == StripRight(StripLeft(t))

RECURSIVE LineEnd(_, _)
\* .*?$ under re.MULTILINE from position i: the next newline, or the end.
LineEnd(t, i) ==
    IF i <= Len(t) /\ t[i] # "\n" THEN LineEnd(t, i + 1) ELSE i

RECURSIVE NoLineCommentsFrom(_, _)
NoLineCommentsFrom(t, i) ==
    IF i > Len(t) THEN <<>>
    ELSE IF i < Len(t) /\ t[i] = "/" /\ t[i + 1] = "/"
         THEN NoLineCommentsFrom(t, LineEnd(t, i + 2))
         ELSE <<t[i]>> \o NoLineCommentsFrom(t, i + 1)

\* re.sub(r"//.*?$", "", s, flags=re.MULTILINE)
NoLineComments(t) == NoLineCommentsFrom(t, 1)

\* The positions j >= i where "*/" starts.
BlockEnds(t, i) == {j \in i..(Len(t) - 1) : t[j] = "*" /\ t[j + 1] = "/"}

RECURSIVE NoBlockCommentsFrom(_, _)
NoBlockCommentsFrom(t, i) ==
    IF i > Len(t) THEN <<>>
    ELSE IF /\ i < Len(t) /\ t[i] = "/" /\ t[i + 1] = "*"
            /\ BlockEnds(t, i + 2) # {}
         THEN LET e == CHOOSE j \in BlockEnds(t, i + 2) :
                           \A k \in BlockEnds(t, i + 2) : j <= k
              IN  NoBlockCommentsFrom(t, e + 2)
         ELSE <<t[i]>> \o NoBlockCommentsFrom(t, i + 1)

\* re.sub(r"/\*.*?\*/", "", s, flags=re.DOTALL)
NoBlockComments(t) == NoBlockCommentsFrom(t, 1)

\* A match of ([\{,]\s*)([A-Za-z_][A-Za-z0-9_]*)\s*: starting at position i:
\* <<start of the identifier, position after it, position of the colon>>,
\* or <<0, 0, 0>> when there is none.
KeyMatch(t, i) ==
    IF t[i] \notin {"{", ","} THEN <<0, 0, 0>>
    ELSE LET a == SkipSpaces(t, i + 1)
         IN  IF a > Len(t) \/ ~IsIdentStart(t[a]) THEN <<0, 0, 0>>
             ELSE LET b == SkipIdent(t, a + 1)
                      c == SkipSpaces(t, b)
                  IN  IF c <= Len(t) /\ t[c] = ":" THEN <<a, b, c>>
                      ELSE <<0, 0, 0>>

\* The replacement \1"\2": of the match m that starts at position i.
KeyQuoted(t, i, m) ==
    SubSeq(t, i, m[1] - 1) \o <<"\"">> \o SubSeq(t, m[1], m[2] - 1)
        \o <<"\"", ":">>

RECURSIVE QuoteKeysFrom(_, _)
QuoteKeysFrom(t, i) ==
    IF i > Len(t) THEN <<>>
    ELSE LET m == KeyMatch(t, i)
         IN  IF m[3] # 0
             THEN KeyQuoted(t, i, m) \o QuoteKeysFrom(t, m[3] + 1)
             ELSE <<t[i]>> \o QuoteKeysFrom(t, i + 1)

\* re.sub(r"([\{,]\s*)([A-Za-z_][A-Za-z0-9_]*)\s*:", r'\1"\2":', s)
QuoteKeys(t) == QuoteKeysFrom(t, 1)

\* re.sub(r",\s*$", "", s): a comma followed by nothing but white space is
\* removed together with that white space.
NoTrailingComma(t) ==
    LET r == StripRight(t)
    IN  IF r # <<>> /\ r[Len(r)] = "," THEN SubSeq(r, 1, Len(r) - 1) ELSE t

\* s = f"[{s}]"
Wrapped(t) == <<"[">> \o t \o <<"]">>

\* No build_plate_from_kle call is in progress.
NoCall ==
    /\ data = <<>>
    /\ unit = DefaultUnit
    /\ stabilizer = NoScheme
    /\ pc = "idle"
    /\ ri = 1
    /\ ti = 1
    /\ cur_x = 0
    /\ cur_y = 0
    /\ cur_w = One
    /\ cur_h = One
    /\ rot_deg = 0
    /\ rot_x = 0
    /\ rot_y = 0
    /\ keys = <<>>
    /\ src = <<>>
    /\ ret = [returned |-> FALSE, keys |-> <<>>]
    /\ err = "none"
    /\ bounds = NoBounds
    /\ plate = NoPlate
    /\ ki = 1
    /\ holes = <<>>
    /\ stabs = <<>>

running == <<data, unit, stabilizer, pc, ri, ti, keys, src, ret, err>>

InitNorm ==
    /\ kle \in Texts(MaxText)
    /\ s_text = <<>>
    /\ npc = "start"
    /\ calls = <<>>
    /\ NoCall

\* s = kle.strip(); the two comment substitutions
NormClean ==
    /\ npc = "start"
    /\ s_text' = NoBlockComments(NoLineComments(Strip(kle)))
    /\ npc' = "clean"
    /\ UNCHANGED <<kle, calls>>
    /\ UNCHANGED <<running, interp, build>>

\* the key-quoting substitution
NormQuote ==
    /\ npc = "clean"
    /\ s_text' = QuoteKeys(s_text)
    /\ npc' = "quoted"
    /\ UNCHANGED <<kle, calls>>
    /\ UNCHANGED <<running, interp, build>>

\* the trailing comma is removed and the text wrapped; return s
NormWrap ==
    /\ npc = "quoted"
    /\ s_text' = Wrapped(NoTrailingComma(s_text))
    /\ npc' = "json"
    /\ UNCHANGED <<kle, calls>>
    /\ UNCHANGED <<running, interp, build>>

NextNorm ==
    \/ NormClean
    \/ NormQuote
    \/ NormWrap

SpecNorm == InitNorm /\ [][NextNorm]_vars

-----------------------------------------------------------------------------
(* parse_kle called several times: one frame of locals per call *)

MaxCalls == 2

\* The passes that run in parallel, each calling parse_kle again and again.
Threads == {"t1", "t2"}

\* ["a", 1]; a row that ends with a pending size inside a rotation group;
\* a row whose third token is null, reached with a pending width; two rows,
\* the second in a rotation group; a document whose only element is no row.
CallDocs ==
    {<<List(<<TokStr, TokNum>>)>>,
     <<List(<<Dict({<<"x", 4>>, <<"r", 270>>, <<"rx", 16>>, <<"ry", 8>>}),
              TokStr, Dict({<<"w", 20>>, <<"h", 36>>})>>)>>,
     <<List(<<TokStr, ModWide, TokNull>>)>>,
     <<List(<<TokStr>>), List(<<ModTurn, TokNum>>)>>,
     <<TokNum>>}

\* A thread that has not called parse_kle yet.
NoFrame ==
    [n |-> 0, left |-> <<"idle", 0, 0, 0>>, data |-> <<>>, unit |-> DefaultUnit,
     pc |-> "idle", ri |-> 0, ti |-> 0,
     cur_x |-> 0, cur_y |-> 0, cur_w |-> 0, cur_h |-> 0,
     rot_deg |-> 0, rot_x |-> 0, rot_y |-> 0,
     keys |-> <<>>, ret |-> <<>>, err |-> "none"]

EnteredKeepsPending(f, doc, u) ==
    [n |-> f.n + 1, left |-> <<f.pc, f.cur_w, f.cur_h, f.rot_deg>>,
     data |-> doc, unit |-> u,
     pc |-> "rows", ri |-> 1, ti |-> 1,
     cur_x |-> 0, cur_y |-> 0, cur_w |-> f.cur_w, cur_h |-> f.cur_h,
     rot_deg |-> f.rot_deg, rot_x |-> 0, rot_y |-> 0,
     keys |-> <<>>, ret |-> <<>>, err |-> "none"]

\* The locals of a call of parse_kle(doc, unit=u) when it reaches the row
\* loop, in a thread whose previous call left the frame f: data, keys = [],
\* cur_x = cur_y = 0.0, cur_w = cur_h = 1.0, rot_deg = rot_x = rot_y = 0.0.
\* (n counts the thread's calls and left records what the previous call left
\* behind: its position and its cur_w, cur_h, rot_deg.)
Entered(f, doc, u) ==
    [n |-> f.n + 1, left |-> <<f.pc, f.cur_w, f.cur_h, f.rot_deg>>,
     data |-> doc, unit |-> u,
     pc |-> "rows", ri |-> 1, ti |-> 1,
     cur_x |-> 0, cur_y |-> 0, cur_w |-> One, cur_h |-> One,
     rot_deg |-> 0, rot_x |-> 0, rot_y |-> 0,
     keys |-> <<>>, ret |-> <<>>, err |-> "none"]

\* for row in data, on the frame f
StepRows(f) ==
    IF f.ri > Len(f.data)
    THEN [f EXCEPT !.ret = f.keys, !.pc = "returned"]
    ELSE IF IsList(f.data[f.ri])
         THEN [f EXCEPT !.cur_x = 0, !.ti = 1, !.pc = "tokens"]
         ELSE [f EXCEPT !.pc = "error", !.err = "RowNotArray"]

\* for token in row, on the frame f
StepTokens(f) ==
    IF f.ti > Len(f.data[f.ri].items)
    THEN [f EXCEPT !.cur_y = NextRowY(f.cur_y), !.ri = f.ri + 1, !.pc = "rows"]
    ELSE LET tok == f.data[f.ri].items[f.ti]
         IN  IF IsDict(tok)
             THEN [f EXCEPT !.cur_x = Jog(tok, "x", f.cur_x),
                            !.cur_y = Jog(tok, "y", f.cur_y),
                            !.cur_w = Set(tok, "w", f.cur_w),
                            !.cur_h = Set(tok, "h", f.cur_h),
                            !.rot_deg = Set(tok, "r", f.rot_deg),
                            !.rot_x = Set(tok, "rx", f.rot_x),
                            !.rot_y = Set(tok, "ry", f.rot_y),
                            !.ti = f.ti + 1]
             ELSE IF IsScalar(tok)
             THEN [f EXCEPT !.keys = Append(f.keys,
                                FlushedKey(f.cur_x, f.cur_y, f.cur_w, f.cur_h,
                                           f.rot_deg, f.rot_x, f.rot_y, f.unit)),
                            !.cur_x = AdvancedX(f.cur_x, f.cur_w),
                            !.cur_w = One,
                            !.cur_h = One,
                            !.ti = f.ti + 1]
             ELSE [f EXCEPT !.pc = "error", !.err = "UnsupportedToken"]

\* One step of the call whose frame is f.
Step(f) == IF f.pc = "rows" THEN StepRows(f) ELSE StepTokens(f)

Running(f) == f.pc \in {"rows", "tokens"}

InitCalls ==
    /\ calls = [t \in Threads |-> NoFrame]
    /\ kle = <<>>
    /\ s_text = <<>>
    /\ npc = "loaded"
    /\ NoCall

\* thread t calls parse_kle(doc): its previous call, if any, has returned or
\* raised
CallBegin(t, doc) ==
    /\ ~Running(calls[t])
    /\ calls[t].n < MaxCalls
    /\ calls' = [calls EXCEPT ![t] = Entered(calls[t], doc, DefaultUnit)]
    /\ UNCHANGED <<kle, s_text, npc>>
    /\ UNCHANGED <<running, interp, build>>

\* the call of thread t takes its next step
CallStep(t) ==
    /\ Running(calls[t])
    /\ calls' = [calls EXCEPT ![t] = Step(calls[t])]
    /\ UNCHANGED <<kle, s_text, npc>>
    /\ UNCHANGED <<running, interp, build>>

NextCalls ==
    \/ \E t \in Threads, doc \in CallDocs : CallBegin(t, doc)
    \/ \E t \in Threads : CallStep(t)

SpecCalls == InitCalls /\ [][NextCalls]_vars

-----------------------------------------------------------------------------
(* Claims *)

\* The step consumes the current token of the current row.
AtToken == pc = "tokens" /\ ti <= Len(row)

\* The step appends one placement.
Emits == Len(keys') = Len(keys) + 1

Last(s) == s[Len(s)]

RECURSIVE PositionsFrom(_, _)
\* The <<row, token>> positions of document d from row r on, row-major.
PositionsFrom(d, r) ==
    IF r > Len(d) THEN <<>>
    ELSE [t \in 1..Len(d[r].items) |-> <<r, t>>] \o PositionsFrom(d, r + 1)

IsStringOrNumberAt(p) == data[p[1]].items[p[2]].kind \in {"str", "num"}

\* The string and number tokens of the document, in encounter order.
StringAndNumberTokens == SelectSeq(PositionsFrom(data, 1), IsStringOrNumberAt)

\* C1: for every accepted document the returned list has exactly one
\* placement per string or number token, the i-th placement being the one
\* produced by the i-th such token in row-major order.
C1_OnePlacementPerScalar ==
    ret.returned =>
        /\ Len(ret.keys) = Len(StringAndNumberTokens)
        /\ src = StringAndNumberTokens

\* C2: at a row boundary the vertical cursor grows by exactly 1 when the
\* row's tokens are exhausted and the horizontal cursor is set to 0 when the
\* next row starts; pending size, rotation group and the placements are left
\* as they are.
C2_RowBoundaryFrame ==
    [][/\ (pc = "tokens" /\ pc' = "rows") =>
              /\ cur_y' = cur_y + One
              /\ UNCHANGED <<cur_x, cur_w, cur_h, rot_deg, rot_x, rot_y, keys>>
       /\ (pc = "rows" /\ pc' = "tokens") =>
              /\ cur_x' = 0
              /\ UNCHANGED <<cur_y, cur_w, cur_h, rot_deg, rot_x, rot_y, keys>>
      ]_vars

\* A width and a rotation group set at the end of row 1 shape the first key
\* of row 2, which sits one unit lower at x = 0.
C2_Witness ==
    /\ Len(keys) = 1
    /\ src[1] = <<2, 1>>
    /\ {data[1].items[t].kind : t \in 1..Len(data[1].items)} = {"dict"}
    /\ keys[1].size = <<36 * unit, One * unit>>
    /\ keys[1].angle_deg = 90

\* C3: on a string or number token a placement of size (pending_w * unit,
\* pending_h * unit) is emitted, the horizontal cursor advances by the
\* pending width the key was emitted with, and pending size is reset to
\* (1, 1); the vertical cursor and the rotation group are unchanged.
C3_FlushKey ==
    [][(AtToken /\ token.kind \in {"str", "num"}) =>
          /\ Emits
          /\ Last(keys').size = <<cur_w * unit, cur_h * unit>>
          /\ cur_x' = cur_x + cur_w
          /\ cur_w' = One
          /\ cur_h' = One
          /\ UNCHANGED <<cur_y, rot_deg, rot_x, rot_y>>
      ]_vars

\* A key after {w: 1.25}: size (1.25, 1) units, cursor advanced from 1 to
\* 2.25, pending width back to 1.
C3_Witness ==
    /\ Len(keys) = 2
    /\ keys[2].size = <<20 * unit, One * unit>>
    /\ keys[1].size = <<One * unit, One * unit>>
    /\ cur_x = One + 20
    /\ cur_w = One

Present(tok, f) == \E p \in tok.fields : p[1] = f

ValueOf(tok, f) == (CHOOSE p \in tok.fields : p[1] = f)[2]

\* C4: a modifier record emits no placement and raises no error; x and y
\* add to the cursor, w, h, r, rx, ry overwrite their component, and every
\* component whose field is absent is unchanged (so a record with only
\* unrecognised fields, or none, leaves the whole state unchanged).
C4_ModifierFrame ==
    [][(AtToken /\ token.kind = "dict") =>
          /\ keys' = keys
          /\ pc' = "tokens"
          /\ err' = "none"
          /\ IF Present(token, "x") THEN cur_x' = cur_x + ValueOf(token, "x")
                                    ELSE cur_x' = cur_x
          /\ IF Present(token, "y") THEN cur_y' = cur_y + ValueOf(token, "y")
                                    ELSE cur_y' = cur_y
          /\ IF Present(token, "w") THEN cur_w' = ValueOf(token, "w")
                                    ELSE cur_w' = cur_w
          /\ IF Present(token, "h") THEN cur_h' = ValueOf(token, "h")
                                    ELSE cur_h' = cur_h
          /\ IF Present(token, "r") THEN rot_deg' = ValueOf(token, "r")
                                    ELSE rot_deg' = rot_deg
          /\ IF Present(token, "rx") THEN rot_x' = ValueOf(token, "rx")
                                     ELSE rot_x' = rot_x
          /\ IF Present(token, "ry") THEN rot_y' = ValueOf(token, "ry")
                                     ELSE rot_y' = rot_y
      ]_vars

\* A record holding only the unrecognised field "a" has just been applied
\* to a state whose cursor and rotation group are off their defaults.
C4_Witness ==
    /\ pc = "tokens"
    /\ ti = 4
    /\ Len(data) = 1
    /\ Len(row) = 4
    /\ row[3] = Dict({<<"a", 7>>})
    /\ Len(keys) = 1
    /\ <<cur_x, cur_y>> = <<4 + 20, 4>>
    /\ <<rot_deg, rot_x, rot_y>> = <<270, 16, 8>>

\* The standard rotation of (x, y) about (ox, oy) by deg degrees.
Rotated(x, y, deg, ox, oy) ==
    <<ox + (x - ox) * CosDeg(deg) - (y - oy) * SinDeg(deg),
      oy + (x - ox) * SinDeg(deg) + (y - oy) * CosDeg(deg)>>

\* C5: a placement's grid center is (cursor.x + pending_w / 2, cursor.y +
\* pending_h / 2) rotated about (rx, ry) by the rotation-group angle with the
\* standard rotation; with angle 0 it is the unrotated point whatever rx, ry
\* are; with {r: 90, rx: 0, ry: 0} a 1x1 key at cursor (1, 0) has grid center
\* (-0.5, 1.5).  The size is the unrotated pending size and angle_deg is the
\* rotation-group angle.  (The emitted center is the grid center times unit,
\* y negated.)
C5_RotatedCenter ==
    [][Emits =>
          LET px == cur_x + cur_w \div 2
              py == cur_y + cur_h \div 2
              g  == Rotated(px, py, rot_deg, rot_x, rot_y)
              k  == Last(keys')
          IN  /\ k.center = <<g[1] * unit, -(g[2] * unit)>>
              /\ k.size = <<cur_w * unit, cur_h * unit>>
              /\ k.angle_deg = rot_deg
              /\ rot_deg = 0 => k.center = <<px * unit, -(py * unit)>>
              /\ (/\ <<rot_deg, rot_x, rot_y>> = <<90, 0, 0>>
                  /\ <<cur_x, cur_y, cur_w, cur_h>> = <<One, 0, One, One>>)
                 => k.center = <<-(One \div 2) * unit, -((3 * One) \div 2) * unit>>
      ]_vars

\* The second key of ["a", {r: 90, rx: 0, ry: 0}, 1]: a 1x1 key at cursor
\* (1, 0), emitted with grid center (-0.5, 1.5).
C5_Witness ==
    /\ Len(keys) = 2
    /\ data = <<List(<<Dict({}), TokStr,
                       Dict({<<"r", 90>>, <<"rx", 0>>, <<"ry", 0>>}), TokNum>>)>>
    /\ keys[1].center = <<8 * unit, -(8 * unit)>>
    /\ keys[2] = [center |-> <<-8 * unit, -(24 * unit)>>,
                  size |-> <<One * unit, One * unit>>,
                  angle_deg |-> 90]

\* C6: a placement's linear center is (grid x * unit, -(grid y * unit)), its
\* size (w * unit, h * unit) and its angle the rotation-group angle; the row
\* ["a", "b"] with unit 19.05 returns exactly the centers (9.525, -9.525) and
\* (28.575, -9.525) with size (19.05, 19.05) and angle 0; without rotation
\* every center x is positive and every center y negative.
C6_UnitConversion ==
    /\ [][Emits =>
             LET g == Rot2d(cur_x + Half(cur_w), cur_y + Half(cur_h),
                            rot_deg, rot_x, rot_y)
                 k == Last(keys')
             IN  /\ k.center[1] = g[1] * unit
                 /\ k.center[2] = -(g[2] * unit)
                 /\ k.size = <<cur_w * unit, cur_h * unit>>
                 /\ k.angle_deg = rot_deg
        ]_vars
    /\ [](/\ (/\ ret.returned
              /\ data = <<List(<<TokStr, TokStr>>)>>
              /\ unit = 1905)
             => ret.keys = <<[center |-> <<15240, -15240>>,
                              size |-> <<30480, 30480>>, angle_deg |-> 0],
                             [center |-> <<45720, -15240>>,
                              size |-> <<30480, 30480>>, angle_deg |-> 0]>>
          /\ (\A i \in 1..Len(keys) : keys[i].angle_deg = 0)
             => \A i \in 1..Len(keys) :
                    keys[i].center[1] > 0 /\ keys[i].center[2] < 0)

\* parse_kle has returned the two placements of ["a", "b"] at unit 19.05.
C6_Witness ==
    /\ ret.returned
    /\ data = <<List(<<TokStr, TokStr>>)>>
    /\ unit = 1905
    /\ Len(ret.keys) = 2
    /\ ret.keys[2].center = <<45720, -15240>>

\* The corners of placement k: center +/- size / 2, rotated about the
\* placement's center by its angle.
CornersOf(k) ==
    {Rotated(k.center[1] + sx * (k.size[1] \div 2),
             k.center[2] + sy * (k.size[2] \div 2),
             k.angle_deg, k.center[1], k.center[2]) :
        sx \in {-1, 1}, sy \in {-1, 1}}

Orderings(n) ==
    {p \in [1..n -> 1..n] : \A i, j \in 1..n : p[i] = p[j] => i = j}

\* C7: for a non-empty placement list the box of _keys_bounds contains the
\* four rotated corners of every placement, each of its four sides is
\* attained by some corner, and the box is the same for every order of the
\* placements.
C7_BoundingBox ==
    (pc = "holes" /\ ki = 1) =>
        LET ks == ret.keys
            cs == UNION {CornersOf(ks[i]) : i \in 1..Len(ks)}
        IN  /\ \A c \in cs : /\ bounds[1] <= c[1] /\ c[1] <= bounds[3]
                             /\ bounds[2] <= c[2] /\ c[2] <= bounds[4]
            /\ \E c \in cs : c[1] = bounds[1]
            /\ \E c \in cs : c[2] = bounds[2]
            /\ \E c \in cs : c[1] = bounds[3]
            /\ \E c \in cs : c[2] = bounds[4]
            /\ \A p \in Orderings(Len(ks)) :
                   KeysBounds([i \in 1..Len(ks) |-> ks[p[i]]]) = bounds

\* Bounds of two placements, the second a 2.25 x 1 key turned by 90 degrees,
\* whose rotated footprint is taller than wide.
C7_Witness ==
    /\ pc = "holes"
    /\ ki = 1
    /\ Len(ret.keys) = 2
    /\ ret.keys[2].size = <<36 * unit, One * unit>>
    /\ ret.keys[2].angle_deg = 90
    /\ bounds[4] = ret.keys[2].center[2] + 18 * unit

\* Every top-level element is a row and every token a modifier record.
OnlyModifiers ==
    \A r \in 1..Len(data) :
        /\ data[r].kind = "list"
        /\ \A t \in 1..Len(data[r].items) : data[r].items[t].kind = "dict"

\* C8: a document without rows, with only empty rows or with only modifier
\* records is accepted by parse_kle, which returns the empty list; NoKeys is
\* raised only by the bounds request of build_plate_from_kle on that empty
\* list, before any plate geometry, and never for a non-empty list.
C8_EmptyLayout ==
    /\ (OnlyModifiers /\ pc \notin {"rows", "tokens"}) =>
           /\ ret.returned
           /\ ret.keys = <<>>
           /\ err \in {"none", "NoKeys"}
    /\ err = "NoKeys" =>
           /\ ret.returned
           /\ ret.keys = <<>>
           /\ bounds = NoBounds /\ plate = NoPlate
           /\ holes = <<>> /\ stabs = <<>>
    /\ (ret.returned /\ ret.keys = <<>> /\ pc # "parsed") => err = "NoKeys"
    /\ pc \in {"holes", "built"} => ret.keys # <<>>

\* NoKeys raised for a document of two rows that hold one modifier record.
C8_Witness ==
    /\ err = "NoKeys"
    /\ Len(data) = 2
    /\ \E r \in 1..2 : Len(data[r].items) = 1
    /\ cur_y = 2 * One

\* A token that is a modifier record, a string or a number.
WellFormedToken(v) == v.kind \in {"dict", "str", "num"}

WellFormedRow(v) ==
    v.kind = "list" /\ \A t \in 1..Len(v.items) : WellFormedToken(v.items[t])

\* C9: a document with a top-level element that is not a row, or with a
\* token that is neither a modifier record nor a string or number, is
\* rejected at its first malformed element: MalformedLayout is raised there,
\* parse_kle returns nothing and nothing after that element is interpreted.
C9_MalformedRejected ==
    (\E r \in 1..Len(data) : ~WellFormedRow(data[r])) =>
        /\ ~ret.returned
        /\ pc \in {"rows", "tokens", "error"}
        /\ \A r \in 1..(ri - 1) : WellFormedRow(data[r])
        /\ pc = "error" =>
              /\ err \in {"RowNotArray", "UnsupportedToken"}
              /\ data[ri].kind = "list" =>
                    /\ \A t \in 1..(ti - 1) : WellFormedToken(data[ri].items[t])
                    /\ ~WellFormedToken(data[ri].items[ti])

\* The stabilizer cutouts added for placement i.
StabsOf(i) == {j \in 1..Len(stabs) : stabs[j].index = i}

LongerSide(k) == IF k.size[1] >= k.size[2] THEN k.size[1] ELSE k.size[2]

\* C10: with a scheme, a placement gets exactly one stabilizer cutout if
\* max(size.x, size.y) / unit > min_u_exclusive and none otherwise (none at
\* exactly the threshold); without a scheme no placement gets one.
C10_StabilizerEligibility ==
    pc \in {"holes", "built"} =>
        \A i \in 1..(ki - 1) :
            Cardinality(StabsOf(i)) =
                IF /\ stabilizer.given
                   /\ LongerSide(ret.keys[i]) > stabilizer.min_u_exclusive * unit
                THEN 1 ELSE 0

\* A plate with a 2u key, which gets no stabilizer cutout at threshold 2.0,
\* and a 2.25u key turned by 180 degrees, which gets one.
C10_Witness ==
    /\ pc = "built"
    /\ stabilizer = KadStabilizerScheme
    /\ Len(ret.keys) = 2
    /\ ret.keys[1].size = <<2 * One * unit, One * unit>>
    /\ ret.keys[2].size = <<36 * unit, One * unit>>
    /\ ret.keys[2].angle_deg = 180
    /\ StabsOf(1) = {}
    /\ StabsOf(2) = {1}


RECURSIVE CountOf(_, _)
\* How many times the character c occurs in t.
CountOf(t, c) ==
    IF t = <<>> THEN 0
    ELSE (IF Head(t) = c THEN 1 ELSE 0) + CountOf(Tail(t), c)

\* Every string literal of the text is closed.
LabelsClosed(t) == CountOf(t, "\"") % 2 = 0

RECURSIVE LabelEnd(_, _)
\* The position of the next double quote at or after i.
LabelEnd(t, i) ==
    IF i <= Len(t) /\ t[i] # "\"" THEN LabelEnd(t, i + 1) ELSE i

RECURSIVE KeysOnlyFrom(_, _)
\* The text with its bare keys quoted and every string literal copied as it
\* is, from position i on.
KeysOnlyFrom(t, i) ==
    IF i > Len(t) THEN <<>>
    ELSE IF t[i] = "\""
         THEN LET e == LabelEnd(t, i + 1)
              IN  SubSeq(t, i, e) \o KeysOnlyFrom(t, e + 1)
         ELSE LET m == KeyMatch(t, i)
              IN  IF m[3] # 0
                  THEN KeyQuoted(t, i, m) \o KeysOnlyFrom(t, m[3] + 1)
                  ELSE <<t[i]>> \o KeysOnlyFrom(t, i + 1)

\* C11: the key-quoting step changes only bare object keys: in a text whose
\* string literals are all closed, the step's result is the text with the
\* bare keys outside string literals quoted and every string literal (key
\* label) left character for character unchanged, also when a label holds
\* a '{' or ',' followed by an identifier and a colon.
C11_OnlyKeysQuoted ==
    [][(npc = "clean" /\ npc' = "quoted" /\ LabelsClosed(s_text))
          => s_text' = KeysOnlyFrom(s_text, 1)]_vars

\* C12: the stabilizer cutout of an eligible placement has axis rotation 0
\* when width >= height and 90 otherwise, and the finished cutout is centered
\* at the key's recentered position (lx, ly) = (center.x - plate_cx,
\* center.y - plate_cy) for both orientations, not at that point rotated
\* about the plate origin.
C12_CutoutAtKey ==
    \A j \in 1..Len(stabs) :
        LET k == ret.keys[stabs[j].index]
            c == stabs[j].cutout
        IN  /\ c.axis_rot = IF k.size[1] >= k.size[2] THEN 0 ELSE 90
            /\ c.at = <<k.center[1] - plate.plate_cx,
                        k.center[2] - plate.plate_cy>>

\* C13: the emitted angle_deg is in the y-up target convention's angular
\* sense, consistently with the emitted center: the converted unrotated
\* center (x * unit, -y * unit) rotated about the converted rotation origin
\* (rx * unit, -ry * unit) by angle_deg, with the standard counter-clockwise
\* rotation, is exactly the emitted center.
C13_AngleMatchesCenter ==
    [][Emits =>
          LET k  == Last(keys')
              px == (cur_x + Half(cur_w)) * unit
              py == -((cur_y + Half(cur_h)) * unit)
          IN  Rotated(px, py, k.angle_deg, rot_x * unit, -(rot_y * unit))
                  = k.center
      ]_vars

\* The state the claim says every interpretation pass starts from.
StartsFresh(f) ==
    /\ <<f.cur_x, f.cur_y>> = <<0, 0>>
    /\ <<f.cur_w, f.cur_h>> = <<One, One>>
    /\ <<f.rot_deg, f.rot_x, f.rot_y>> = <<0, 0, 0>>
    /\ f.keys = <<>>

\* The frame of a pass over doc that nothing ran before or beside.
Alone(doc, u) ==
    [NoFrame EXCEPT !.data = doc, !.unit = u, !.pc = "rows", !.ri = 1,
                    !.ti = 1, !.cur_w = One, !.cur_h = One]

RECURSIVE Finished(_)
\* The frame f run to its end without interruption.
Finished(f) == IF Running(f) THEN Finished(Step(f)) ELSE f

\* C14: interpreter state is owned by one interpretation pass: every call of
\* parse_kle starts from cursor (0,0), pending size (1,1) and rotation group
\* (0,0,0), and what a finished call returned or raised is what its document
\* gives when interpreted alone, whatever the thread ran before (a call
\* that ended with a pending w/h, a non-zero rotation group or an error) and
\* however its steps were interleaved with those of the other thread.
C14_PassOwnsState ==
    \A t \in Threads :
        LET f == calls[t]
            a == Finished(Alone(f.data, f.unit))
        IN  /\ (f.pc = "rows" /\ f.ri = 1) => StartsFresh(f)
            /\ f.pc = "returned" => a.pc = "returned" /\ f.ret = a.ret
            /\ f.pc = "error" => a.pc = "error" /\ f.err = a.err

\* Thread t1 has returned the two placements of its second document, the
\* two-row one, after a first call that raised with a pending width of 2.25,
\* while thread t2, whose first call ended with a pending size in a rotation
\* group of 270 degrees, is in the middle of its second call.
C14_Witness ==
    /\ calls["t1"].n = 2
    /\ calls["t1"].left = <<"error", 36, One, 0>>
    /\ calls["t1"].pc = "returned"
    /\ Len(calls["t1"].data) = 2
    /\ Len(calls["t1"].ret) = 2
    /\ calls["t2"].n = 2
    /\ calls["t2"].left = <<"returned", 20, 36, 270>>
    /\ calls["t2"].pc = "tokens"
    /\ calls["t2"].ti = 2

=============================================================================
